---- MODULE Spec2Model ----
(***************************************************************************)
(* Model of the chat backend in src/main.py: the process-wide dictionary   *)
(* conversation_history, the POST /chat handler `chat` and the GET         *)
(* /threads/{thread_id}/history handler `get_chat_history`.                *)
(*                                                                         *)
(* Both handlers are coroutines (`async def`) that contain no `await`:     *)
(* the event loop that uvicorn.run starts executes a handler from its      *)
(* first line to its return without yielding, and the synchronous          *)
(* model.invoke call keeps the loop occupied until it returns or raises.   *)
(* The steps of a handler are separate actions so that the intermediate    *)
(* states can be named; LoopFree is what keeps a second handler from       *)
(* starting between them.                                                  *)
(***************************************************************************)
EXTENDS Integers, Sequences, FiniteSets, TLC

VARIABLES conversation_history, turns, uuids, reads

vars == <<conversation_history, turns, uuids, reads>>

(* ------------------------------ bounds --------------------------------- *)

\* number of POST /chat requests the clients send
MaxTurns == 2

\* number of GET /threads/{id}/history requests the clients send
MaxReads == 2

(* ------------------------------ values --------------------------------- *)

\* a str value, and a value that is a list of content blocks
\* (AIMessage.content is Union[str, list])
Str(s) == [t |-> "str", v |-> s]

Lst(s) == [t |-> "list", v |-> s]

\* an id a client makes up itself
T1 == "t1"

\* an id no /chat request ever carries
Nonexistent == "nonexistent"

\* str(uuid.uuid4()): the n-th identifier drawn is new
UUIDs == <<"u1", "u2", "u3", "u4", "u5", "u6">>

uuid4(n) == UUIDs[n + 1]

\* Optional[str]: None, or a string
None == [present |-> FALSE, id |-> ""]

Some(s) == [present |-> TRUE, id |-> s]

\* class ChatRequest(BaseModel)
ChatRequest(m, tid) == [message |-> m, thread_id |-> tid]

\* the request bodies the clients send: any text (empty included), with no
\* thread_id, an empty one, or a chosen one
Requests ==
    {ChatRequest("hi", None), ChatRequest("hi", Some("")),
     ChatRequest("hi", Some(T1)), ChatRequest("", Some(T1))}

\* a JSON body without a "message" member
Missing == [t |-> "missing", v |-> ""]

\* as if the handler took the raw body and nothing validated it
MessageValidAny(m) == TRUE

\* the "message" member of a body as FastAPI validates it against
\* ChatRequest.message: str
MessageValid(m) == m.t = "str"

\* bodies that ChatRequest does not accept: no message, or a message that is
\* a JSON array
InvalidBodies ==
    {[message |-> Missing, thread_id |-> Some(T1)],
     [message |-> Lst("hi"), thread_id |-> None]}

\* HumanMessage(content=...), stored with the turn that appended it
HumanMessage(c, i) == [cls |-> "HumanMessage", content |-> c, turn |-> i]

\* what model.invoke returns: an AIMessage
AIMessage(c, i) == [cls |-> "AIMessage", content |-> c, turn |-> i]

NoMessage == [cls |-> "None", content |-> Str(""), turn |-> 0]

\* the texts the model answers with
Replies == {"r1"}

\* results of model.invoke that do not raise: text content, or a list of
\* content blocks
InvokerContents == {Str(r) : r \in Replies} \cup {Lst("r1")}

\* class ChatResponse(BaseModel): message: str, thread_id: str
ChatResponse(c, tid) == [message |-> c, thread_id |-> tid]

NoResponse == [message |-> Str(""), thread_id |-> ""]

\* pydantic accepts ChatResponse(message=...) only for a str
ChatResponseValid(c) == c.t = "str"

\* Python truth value of Optional[str]: None and "" are false
Truthy(tid) == tid.present /\ tid.id # ""

\* as if a fixed id stood in for a missing thread_id
ResolveThreadIdDefault(tid, n) == IF Truthy(tid) THEN tid.id ELSE uuid4(0)

\* request.thread_id or str(uuid.uuid4())
ResolveThreadId(tid, n) == IF Truthy(tid) THEN tid.id ELSE uuid4(n)

(* ------------------------------- state --------------------------------- *)

Running == {"begun", "call", "invoking", "returned", "respond", "except"}

Finished == {"ok", "failed"}

\* the request was answered 422 by the validation of the body
Rejected == {"rejected"}

NewTurn(req) ==
    [request |-> req, pc |-> "ready", thread_id |-> "", response |-> NoMessage,
     reply |-> NoResponse, pre |-> <<>>, seen |-> <<>>, existed |-> FALSE,
     body |-> Str(req.message), calls |-> 0]

\* as if the handler awaited the model call and gave the loop to other requests
LoopFreeAwait == TRUE

\* the handler coroutine that occupies the event loop, if any
LoopFree == \A i \in 1..Len(turns) : turns[i].pc \notin Running

\* requests are dispatched in the order they were accepted
IsNextReady(i) ==
    /\ i \in 1..Len(turns)
    /\ turns[i].pc = "ready"
    /\ \A j \in 1..(i - 1) : turns[j].pc # "ready"

Init ==
    /\ conversation_history = <<>>
    /\ turns = <<>>
    /\ uuids = 0
    /\ reads = <<>>

(* ------------------------------ POST /chat ----------------------------- *)

\* a client sends POST /chat
Submit(req) ==
    /\ Len(turns) < MaxTurns
    /\ turns' = Append(turns, NewTurn(req))
    /\ UNCHANGED <<conversation_history, uuids, reads>>

\* a client sends POST /chat with a body that is not a ChatRequest
SubmitInvalid(b) ==
    /\ Len(turns) < MaxTurns
    /\ turns' = Append(turns, [NewTurn(ChatRequest("", b.thread_id)) EXCEPT !.body = b.message])
    /\ UNCHANGED <<conversation_history, uuids, reads>>

\* the body fails validation: chat is not called
Reject(i) ==
    /\ LoopFree
    /\ IsNextReady(i)
    /\ ~MessageValid(turns[i].body)
    /\ turns' = [turns EXCEPT ![i].pc = "rejected"]
    /\ UNCHANGED <<conversation_history, uuids, reads>>

\* as if the history were reset on every request, without the membership test
GetOrCreateReset(ch, tid) ==
    [x \in DOMAIN ch \cup {tid} |-> IF x = tid THEN <<>> ELSE ch[x]]

\* if thread_id not in conversation_history: conversation_history[thread_id] = []
GetOrCreate(ch, tid) ==
    IF tid \in DOMAIN ch THEN ch
    ELSE [x \in DOMAIN ch \cup {tid} |-> IF x = tid THEN <<>> ELSE ch[x]]

\* as if all ids shared one list object
AppendToAll(ch, tid, msg) == [x \in DOMAIN ch |-> Append(ch[x], msg)]

\* as if the message were inserted at the front of the list
AppendToFront(ch, tid, msg) == [ch EXCEPT ![tid] = <<msg>> \o @]

\* conversation_history[thread_id].append(msg)
AppendTo(ch, tid, msg) == [ch EXCEPT ![tid] = Append(@, msg)]

ChatBegin(i) ==
    /\ LoopFree
    /\ IsNextReady(i)
    /\ MessageValid(turns[i].body)
    /\ LET tid == ResolveThreadId(turns[i].request.thread_id, uuids)
       IN /\ conversation_history' = GetOrCreate(conversation_history, tid)
          /\ uuids' = IF Truthy(turns[i].request.thread_id) THEN uuids ELSE uuids + 1
          /\ turns' = [turns EXCEPT ![i].pc = "begun",
                                    ![i].thread_id = tid,
                                    ![i].existed = tid \in DOMAIN conversation_history,
                                    ![i].pre = IF tid \in DOMAIN conversation_history
                                               THEN conversation_history[tid] ELSE <<>>]
    /\ UNCHANGED reads

AppendUser(i) ==
    /\ i \in 1..Len(turns)
    /\ turns[i].pc = "begun"
    /\ conversation_history' =
          AppendTo(conversation_history, turns[i].thread_id,
                   HumanMessage(Str(turns[i].request.message), i))
    /\ turns' = [turns EXCEPT ![i].pc = "call"]
    /\ UNCHANGED <<uuids, reads>>

\* as if only the new message were handed to the model
CallInvokeLastOnly(i) ==
    /\ i \in 1..Len(turns)
    /\ turns[i].pc = "call"
    /\ turns' = [turns EXCEPT ![i].pc = "invoking",
                              ![i].calls = @ + 1,
                              ![i].seen = <<conversation_history[turns[i].thread_id]
                                              [Len(conversation_history[turns[i].thread_id])]>>]
    /\ UNCHANGED <<conversation_history, uuids, reads>>

\* model.invoke(conversation_history[thread_id]) is entered
CallInvoke(i) ==
    /\ i \in 1..Len(turns)
    /\ turns[i].pc = "call"
    /\ turns' = [turns EXCEPT ![i].pc = "invoking",
                              ![i].calls = @ + 1,
                              ![i].seen = conversation_history[turns[i].thread_id]]
    /\ UNCHANGED <<conversation_history, uuids, reads>>

\* model.invoke returns a message
InvokerReturn(i, c) ==
    /\ i \in 1..Len(turns)
    /\ turns[i].pc = "invoking"
    /\ turns' = [turns EXCEPT ![i].pc = "returned", ![i].response = AIMessage(c, i)]
    /\ UNCHANGED <<conversation_history, uuids, reads>>

\* model.invoke raises
InvokerRaise(i) ==
    /\ i \in 1..Len(turns)
    /\ turns[i].pc = "invoking"
    /\ turns' = [turns EXCEPT ![i].pc = "except"]
    /\ UNCHANGED <<conversation_history, uuids, reads>>

AppendAssistant(i) ==
    /\ i \in 1..Len(turns)
    /\ turns[i].pc = "returned"
    /\ conversation_history' =
          AppendTo(conversation_history, turns[i].thread_id, turns[i].response)
    /\ turns' = [turns EXCEPT ![i].pc = "respond"]
    /\ UNCHANGED <<uuids, reads>>

\* return ChatResponse(message=response.content, thread_id=thread_id)
Respond(i) ==
    /\ i \in 1..Len(turns)
    /\ turns[i].pc = "respond"
    /\ turns' = IF ChatResponseValid(turns[i].response.content)
                THEN [turns EXCEPT ![i].pc = "ok",
                                   ![i].reply = ChatResponse(turns[i].response.content,
                                                             turns[i].thread_id)]
                ELSE [turns EXCEPT ![i].pc = "except"]
    /\ UNCHANGED <<conversation_history, uuids, reads>>

\* as if the handler answered with an empty reply instead of raising
ExceptSwallow(i) ==
    /\ i \in 1..Len(turns)
    /\ turns[i].pc = "except"
    /\ turns' = [turns EXCEPT ![i].pc = "ok",
                              ![i].reply = ChatResponse(Str(""), turns[i].thread_id)]
    /\ UNCHANGED <<conversation_history, uuids, reads>>

\* except Exception as e: raise HTTPException(status_code=500, ...)
Except(i) ==
    /\ i \in 1..Len(turns)
    /\ turns[i].pc = "except"
    /\ turns' = [turns EXCEPT ![i].pc = "failed"]
    /\ UNCHANGED <<conversation_history, uuids, reads>>

(* ------------------- GET /threads/{thread_id}/history ------------------ *)

\* as if only text content counted as content
HasContentText(msg) == msg.cls \in {"HumanMessage", "AIMessage"} /\ msg.content.t = "str"

\* hasattr(msg, 'content')
HasContent(msg) == msg.cls \in {"HumanMessage", "AIMessage"}

\* as if the class test were made against the wrong class
RoleSwapped(msg) == IF msg.cls = "AIMessage" THEN "user" ELSE "assistant"

Role(msg) == IF msg.cls = "HumanMessage" THEN "user" ELSE "assistant"

Entry(msg) == [role |-> Role(msg), content |-> msg.content]

get_chat_history(ch, tid) ==
    IF tid \notin DOMAIN ch THEN <<>>
    ELSE LET kept == SelectSeq(ch[tid], HasContent)
         IN [k \in 1..Len(kept) |-> Entry(kept[k])]

\* as if the lookup registered the id (a defaultdict, or setdefault)
StoreAfterReadRegisters(ch, tid) ==
    IF tid \in DOMAIN ch THEN ch
    ELSE [x \in DOMAIN ch \cup {tid} |-> IF x = tid THEN <<>> ELSE ch[x]]

\* the store after get_chat_history has run: it only tests membership and
\* iterates
StoreAfterRead(ch, tid) == ch

ReadIds == {T1, Nonexistent}

GetHistory(tid) ==
    /\ LoopFree
    /\ Len(reads) < MaxReads
    /\ reads' = Append(reads, [thread_id |-> tid,
                               messages |-> get_chat_history(conversation_history, tid)])
    /\ conversation_history' = StoreAfterRead(conversation_history, tid)
    /\ UNCHANGED <<turns, uuids>>

(* --------------------------- specification ----------------------------- *)

HandlerStep ==
    \E i \in 1..MaxTurns :
        \/ Reject(i)
        \/ ChatBegin(i)
        \/ AppendUser(i)
        \/ CallInvoke(i)
        \/ AppendAssistant(i)
        \/ Respond(i)
        \/ Except(i)

Next ==
    \/ \E req \in Requests : Submit(req)
    \/ \E b \in InvalidBodies : SubmitInvalid(b)
    \/ \E i \in 1..MaxTurns : Reject(i)
    \/ \E i \in 1..MaxTurns : ChatBegin(i)
    \/ \E i \in 1..MaxTurns : AppendUser(i)
    \/ \E i \in 1..MaxTurns : CallInvoke(i)
    \/ \E i \in 1..MaxTurns, c \in InvokerContents : InvokerReturn(i, c)
    \/ \E i \in 1..MaxTurns : InvokerRaise(i)
    \/ \E i \in 1..MaxTurns : AppendAssistant(i)
    \/ \E i \in 1..MaxTurns : Respond(i)
    \/ \E i \in 1..MaxTurns : Except(i)
    \/ \E tid \in ReadIds : GetHistory(tid)

Spec == Init /\ [][Next]_vars

\* the event loop keeps running the handler it has entered; nothing makes
\* model.invoke answer
LiveSpec == Spec /\ WF_vars(HandlerStep)

TypeOK ==
    /\ uuids \in 0..MaxTurns
    /\ Len(turns) <= MaxTurns
    /\ Len(reads) <= MaxReads
    /\ \A i \in 1..Len(turns) : turns[i].pc \in {"ready"} \cup Running \cup Finished \cup Rejected

(* ----------------------------- properties ------------------------------ *)

Last(s) == s[Len(s)]

IsPrefix(a, b) == Len(a) <= Len(b) /\ SubSeq(b, 1, Len(a)) = a

\* every id a request or a read can name
AllIds == {T1, Nonexistent, ""} \cup {UUIDs[n] : n \in 1..Len(UUIDs)}

\* the turns whose handler has been entered
Started(i) == i \in 1..Len(turns) /\ turns[i].pc \notin {"ready"} \cup Rejected

\* the turns that have handed a history to model.invoke
Invoked(i) == Started(i) /\ turns[i].pc \notin {"begun", "call"}

UserEntry(i) == [role |-> "user", content |-> Str(turns[i].request.message)]

AssistantEntry(i) == [role |-> "assistant", content |-> turns[i].reply.message]

\* the inputs and replies of the successful turns 1..n on thread t, in order
RECURSIVE Transcript(_, _)
Transcript(t, n) ==
    IF n = 0 THEN <<>>
    ELSE IF turns[n].pc = "ok" /\ turns[n].thread_id = t
         THEN Transcript(t, n - 1) \o <<UserEntry(n), AssistantEntry(n)>>
         ELSE Transcript(t, n - 1)

TurnsOn(t) == {i \in 1..Len(turns) : Started(i) /\ turns[i].thread_id = t}

\* the positions of thread t's history that turn i appended
MsgsOf(t, i) == {k \in 1..Len(conversation_history[t]) : conversation_history[t][k].turn = i}

\* C1: after N successful turns submitted one after another to a thread that
\* was not in the store (and no other turn on it), get_history returns 2N
\* messages: the k-th input as user, then the k-th turn's reply as assistant.
C1_HistoryOrdering ==
    \A t \in AllIds :
        (\A i \in TurnsOn(t) : turns[i].pc = "ok") =>
            /\ Len(get_chat_history(conversation_history, t)) = 2 * Cardinality(TurnsOn(t))
            /\ get_chat_history(conversation_history, t) = Transcript(t, Len(turns))

C1_Witness ==
    /\ Len(turns) >= 2
    /\ turns[1].pc = "ok" /\ turns[2].pc = "ok"
    /\ turns[1].thread_id = T1 /\ turns[2].thread_id = T1
    /\ turns[1].request.message # turns[2].request.message
    /\ TurnsOn(T1) = {1, 2}
    /\ Len(get_chat_history(conversation_history, T1)) = 4

\* C2: the append-user / invoke / append-assistant sequences of two turns on
\* one thread never interleave: the messages of a thread are grouped by turn
\* in the order the turns were submitted, and the history a turn handed to
\* the invoker ends with its own user message and holds every message that
\* precedes its assistant message in the thread.
C2_Serialized ==
    \A t \in DOMAIN conversation_history :
        /\ \A k \in 1..(Len(conversation_history[t]) - 1) :
              conversation_history[t][k].turn <= conversation_history[t][k + 1].turn
        /\ \A i \in TurnsOn(t) :
              Invoked(i) =>
                 /\ turns[i].seen # <<>>
                 /\ Last(turns[i].seen) = HumanMessage(Str(turns[i].request.message), i)
                 /\ IsPrefix(turns[i].seen, conversation_history[t])
                 /\ \A k \in MsgsOf(t, i) :
                       conversation_history[t][k].cls = "AIMessage" => k = Len(turns[i].seen) + 1

\* a second turn on the thread was submitted while the first was inside the
\* model call; it is still waiting when the first has made both its appends
C2_Witness ==
    /\ Len(turns) = 2
    /\ turns[1].thread_id = T1
    /\ turns[1].pc = "respond"
    /\ turns[2].pc = "ready"
    /\ turns[2].request.thread_id = Some(T1)
    /\ Len(conversation_history[T1]) = 2
    /\ conversation_history[T1][2] = turns[1].response

\* C3: a turn that is reported as failed has appended exactly one message,
\* the user's, and no assistant message.
C3_FailedTurnAppendsUserOnly ==
    \A i \in 1..Len(turns) :
        turns[i].pc = "failed" =>
            /\ Cardinality(MsgsOf(turns[i].thread_id, i)) = 1
            /\ \A k \in MsgsOf(turns[i].thread_id, i) :
                  conversation_history[turns[i].thread_id][k].cls = "HumanMessage"

\* the turn whose handler takes a step
Acting(i) == i \in 1..Len(turns) /\ turns'[i].pc # turns[i].pc

\* C4: a step of a turn on thread A leaves the history of every other thread
\* B unchanged, and every message in B's history was submitted to or
\* generated for B.
C4_ThreadIsolation ==
    /\ [](\A b \in DOMAIN conversation_history :
             \A k \in 1..Len(conversation_history[b]) :
                 /\ Started(conversation_history[b][k].turn)
                 /\ turns[conversation_history[b][k].turn].thread_id = b)
    /\ [][\A i \in 1..MaxTurns : \A b \in DOMAIN conversation_history :
             (Acting(i) /\ turns'[i].thread_id # b) =>
                 /\ b \in DOMAIN conversation_history'
                 /\ conversation_history'[b] = conversation_history[b]]_vars

C4_Witness ==
    /\ T1 \in DOMAIN conversation_history
    /\ uuid4(0) \in DOMAIN conversation_history
    /\ Len(conversation_history[T1]) >= 2
    /\ Len(conversation_history[uuid4(0)]) >= 1
    /\ \E i \in 1..Len(turns) : turns[i].pc = "failed"
    /\ \E i \in 1..Len(turns) : turns[i].pc = "ok"

\* C5: while a turn on thread A is inside model.invoke, the next waiting turn
\* on another thread can start and a get_history request can run.
C5_OtherThreadsNotBlocked ==
    \A i \in 1..Len(turns) :
        turns[i].pc = "invoking" =>
            /\ \A j \in 1..Len(turns) :
                  (/\ IsNextReady(j)
                   /\ ResolveThreadId(turns[j].request.thread_id, uuids) # turns[i].thread_id)
                      => ENABLED ChatBegin(j)
            /\ Len(reads) < MaxReads => ENABLED GetHistory(Nonexistent)

\* C6: get_history never changes the store, and for an id that is not in the
\* store it returns the empty list and does not register the id.
C6_ReadHasNoEffect ==
    [][reads' # reads =>
          /\ conversation_history' = conversation_history
          /\ Last(reads').thread_id \notin DOMAIN conversation_history =>
                /\ Last(reads').messages = <<>>
                /\ Last(reads').thread_id \notin DOMAIN conversation_history']_vars

C6_Witness ==
    /\ Len(reads) = 2
    /\ reads[1] = [thread_id |-> Nonexistent, messages |-> <<>>]
    /\ reads[2] = [thread_id |-> Nonexistent, messages |-> <<>>]
    /\ DOMAIN conversation_history # {}
    /\ Nonexistent \notin DOMAIN conversation_history

\* C7: a turn whose request carries a thread_id (any string, the empty one
\* included) works on the thread with exactly that id and answers with it;
\* an id is generated only for a request without thread_id.
C7_SuppliedIdIsUsed ==
    /\ \A i \in 1..Len(turns) :
          (Started(i) /\ turns[i].request.thread_id.present) =>
              /\ turns[i].thread_id = turns[i].request.thread_id.id
              /\ turns[i].pc = "ok" => turns[i].reply.thread_id = turns[i].request.thread_id.id
    /\ uuids = Cardinality({i \in 1..Len(turns) :
                               Started(i) /\ ~turns[i].request.thread_id.present})

\* C8: every turn that has started eventually completes, with a reply or
\* with a failure.
C8_TurnCompletes ==
    \A i \in 1..MaxTurns :
        Started(i) ~> (i \in 1..Len(turns) /\ turns[i].pc \in Finished)

\* C9: a step keeps every registered id and extends every history at its
\* end only, and of two reads of one id the earlier result is a prefix of
\* the later one.
C9_AppendOnly ==
    /\ [][\A t \in DOMAIN conversation_history :
             /\ t \in DOMAIN conversation_history'
             /\ IsPrefix(conversation_history[t], conversation_history'[t])]_vars
    /\ [](\A k \in 1..Len(reads) : \A l \in 1..Len(reads) :
             (k < l /\ reads[k].thread_id = reads[l].thread_id) =>
                 IsPrefix(reads[k].messages, reads[l].messages))

C9_Witness ==
    /\ Len(reads) = 2
    /\ reads[1].thread_id = T1 /\ reads[2].thread_id = T1
    /\ Len(reads[1].messages) >= 2
    /\ Len(reads[2].messages) > Len(reads[1].messages)

\* C10: after a turn on thread T has failed, no other thread holds a message
\* of it, T's history is the pre-turn history followed by the turn's user
\* message only, and the next turn on T, if it succeeds, has appended its
\* user message and its reply right after that user message.
C10_FailedTurnKeepsStore ==
    \A i \in 1..Len(turns) :
        turns[i].pc = "failed" =>
            LET t == turns[i].thread_id
                kept == turns[i].pre \o <<HumanMessage(Str(turns[i].request.message), i)>>
            IN /\ \A b \in DOMAIN conversation_history \ {t} : MsgsOf(b, i) = {}
               /\ IsPrefix(kept, conversation_history[t])
               /\ MsgsOf(t, i) = {Len(kept)}
               /\ \A j \in TurnsOn(t) :
                     (/\ j > i
                      /\ turns[j].pc = "ok"
                      /\ \A m \in TurnsOn(t) : ~(i < m /\ m < j))
                        => IsPrefix(kept \o <<HumanMessage(Str(turns[j].request.message), j),
                                              turns[j].response>>,
                                    conversation_history[t])

\* C11: a request whose body has no valid message is rejected before the
\* store is touched: its handler is never entered, it registers no thread,
\* appends no message and makes no model call.
C11_InvalidRejectedFirst ==
    /\ \A i \in 1..Len(turns) :
          turns[i].body \in {b.message : b \in InvalidBodies} =>
              /\ turns[i].pc \in {"ready"} \cup Rejected
              /\ turns[i].calls = 0
              /\ \A t \in DOMAIN conversation_history : MsgsOf(t, i) = {}
    /\ DOMAIN conversation_history = {turns[i].thread_id : i \in {j \in 1..Len(turns) : Started(j)}}

C11_Witness ==
    /\ Len(turns) = 2
    /\ turns[1].pc = "rejected"
    /\ turns[1].body = Missing
    /\ turns[1].request.thread_id = Some(T1)
    /\ turns[2].pc = "rejected"
    /\ turns[2].body = Lst("hi")
    /\ conversation_history = <<>>
    /\ uuids = 0

\* C12: a turn calls model.invoke exactly once, a turn that answers with a
\* reply got that reply from its one call, and once the handler is in its
\* except clause the turn ends as an error response and stays one.
C12_OneCallNoRetry ==
    /\ [](\A i \in 1..Len(turns) :
             /\ turns[i].calls = (IF Invoked(i) THEN 1 ELSE 0)
             /\ turns[i].pc = "ok" =>
                   /\ turns[i].response.cls = "AIMessage"
                   /\ turns[i].reply.message = turns[i].response.content)
    /\ [][\A i \in 1..Len(turns) :
             turns[i].pc \in {"except", "failed"} => turns'[i].pc \in {turns[i].pc, "failed"}]_vars

\* one turn failed because model.invoke raised, another because its result
\* could not be returned
C12_Witness ==
    /\ Len(turns) = 2
    /\ turns[1].pc = "failed" /\ turns[1].response = NoMessage /\ turns[1].calls = 1
    /\ turns[2].pc = "failed" /\ turns[2].response.cls = "AIMessage" /\ turns[2].calls = 1

\* the turns whose request carried no thread_id
Generated == {i \in 1..Len(turns) : Started(i) /\ ~turns[i].request.thread_id.present}

\* C13: the turns without thread_id work on pairwise distinct ids, none of
\* which was registered before, and after such a turn has succeeded its
\* thread holds exactly its user message and its reply.
C13_GeneratedIdsDistinct ==
    /\ \A i \in Generated : \A j \in Generated : i # j => turns[i].thread_id # turns[j].thread_id
    /\ \A i \in Generated :
          /\ ~turns[i].existed
          /\ turns[i].pre = <<>>
          /\ turns[i].pc = "ok" =>
                conversation_history[turns[i].thread_id] =
                    <<HumanMessage(Str(turns[i].request.message), i), turns[i].response>>

C13_Witness ==
    /\ Generated = {1, 2}
    /\ turns[1].pc = "ok" /\ turns[2].pc = "ok"
    /\ turns[1].reply.thread_id # turns[2].reply.thread_id
    /\ Len(conversation_history[turns[2].reply.thread_id]) = 2

\* C14: the sequence handed to model.invoke is the thread's history from
\* before the turn followed by the user message made from the request text,
\* and that message is in the store while the call runs.
C14_InvokerInput ==
    \A i \in 1..Len(turns) :
        Invoked(i) =>
            /\ turns[i].seen = turns[i].pre \o <<HumanMessage(Str(turns[i].request.message), i)>>
            /\ turns[i].pc = "invoking" =>
                  conversation_history[turns[i].thread_id] = turns[i].seen

\* a turn with empty text on a thread that already holds two messages
C14_Witness ==
    /\ Len(turns) = 2
    /\ turns[2].pc = "invoking"
    /\ turns[2].request.message = ""
    /\ Len(turns[2].pre) = 2
    /\ Len(turns[2].seen) = 3

\* C15: get_history returns one entry per stored message, in stored order
\* and with the stored content; the role is user exactly for the messages
\* made from request texts and assistant exactly for the invoker's results.
C15_HistoryEntries ==
    \A t \in DOMAIN conversation_history :
        LET h == conversation_history[t]
            r == get_chat_history(conversation_history, t)
        IN /\ Len(r) = Len(h)
           /\ \A k \in 1..Len(h) :
                 /\ k <= Len(r)
                 /\ r[k].content = h[k].content
                 /\ r[k].role \in {"user", "assistant"}
                 /\ r[k].role = "user" <=>
                       h[k] = HumanMessage(Str(turns[h[k].turn].request.message), h[k].turn)
                 /\ r[k].role = "assistant" <=> h[k] = turns[h[k].turn].response

\* a thread that holds a result with list content and a result with text
C15_Witness ==
    /\ T1 \in DOMAIN conversation_history
    /\ Len(conversation_history[T1]) = 4
    /\ conversation_history[T1][2].content = Lst("r1")
    /\ conversation_history[T1][4].content = Str("r1")
    /\ Len(get_chat_history(conversation_history, T1)) = 4

\* C16: a finished turn answered with a reply if and only if it appended an
\* assistant message; a turn that answered with a reply appended exactly a
\* user message and then an assistant message, to the thread whose id it
\* returns, and its reply text is that assistant message's content.
C16_SuccessIffAssistant ==
    \A i \in 1..Len(turns) :
        turns[i].pc \in Finished =>
            LET t == turns[i].thread_id
                h == conversation_history[t]
            IN /\ turns[i].pc = "ok" <=> (\E k \in MsgsOf(t, i) : h[k].cls = "AIMessage")
               /\ turns[i].pc = "ok" =>
                     /\ turns[i].reply.thread_id = t
                     /\ Cardinality(MsgsOf(t, i)) = 2
                     /\ \E k \in 1..(Len(h) - 1) :
                           /\ MsgsOf(t, i) = {k, k + 1}
                           /\ h[k].cls = "HumanMessage"
                           /\ h[k + 1].cls = "AIMessage"
                           /\ h[k + 1].content = turns[i].reply.message

\* the history of t starts with a user message and every assistant message
\* follows a user message
WellFormed(h) ==
    /\ h # <<>> => h[1].cls = "HumanMessage"
    /\ \A k \in 1..Len(h) : h[k].cls = "AIMessage" => (k > 1 /\ h[k - 1].cls = "HumanMessage")

\* C17 as stated: in every state every registered id has a non-empty history
\* that starts with a user message and in which every assistant message
\* follows a user message.
C17_NonEmptyWellFormed ==
    \A t \in DOMAIN conversation_history :
        /\ conversation_history[t] # <<>>
        /\ WellFormed(conversation_history[t])

\* the handler of turn i has registered its thread and not yet appended
CreatingThread(i, t) ==
    /\ i \in 1..Len(turns)
    /\ turns[i].pc = "begun"
    /\ turns[i].thread_id = t
    /\ ~turns[i].existed

\* C17 amended: the same, except that a registered history is empty while the
\* handler that registered it is between the registration and its append.
C17_WellFormedOutsideCreation ==
    \A t \in DOMAIN conversation_history :
        /\ conversation_history[t] = <<>> <=> (\E i \in 1..Len(turns) : CreatingThread(i, t))
        /\ WellFormed(conversation_history[t])

\* a failed turn followed by a successful one on the same thread
C17_Witness ==
    /\ Len(turns) = 2
    /\ turns[1].pc = "failed" /\ turns[2].pc = "ok"
    /\ turns[1].thread_id = T1 /\ turns[2].thread_id = T1
    /\ Len(conversation_history[T1]) = 3

====
